---- MODULE Spec2Model ----
(***************************************************************************)
(* Model of the caching layer of checkthechain (ctc): the blocks table     *)
(* statements, the chainlink feed statements and the schema version        *)
(* registry.                                                               *)
(*                                                                         *)
(* Conventions                                                             *)
(*   - A Python Optional value is a set with at most one element: None is  *)
(*     {} and a present value x is {x}.                                    *)
(*   - A row (a Python dict) is a function from column names to values.    *)
(*   - A table is the set of its rows; whether two rows may share a key is *)
(*     decided by the insert statement, not by the representation.         *)
(*   - Python numbers are represented by their value (int(x) of a numeric  *)
(*     x with an integral value is that value).                            *)
(*   - An address string is the sequence of its characters.                *)
(***************************************************************************)
EXTENDS Integers, Sequences, FiniteSets, TLC

VARIABLES
    blocks_exists,     \* whether the blocks table has been created
    blocks,            \* rows of the blocks table
    feeds,             \* rows of the chainlink_feeds table
    schema_versions,   \* rows of the schema_versions table
    upserted,          \* history: per block number, the row expected in the table
    last,              \* the call whose result the caller holds: its name,
                       \* arguments, outcome and result; op "none" between calls
    aggregator_updates,      \* rows of the chainlink_aggregator_updates table
    _schema_version_cache,   \* the module's cache: its engine and its lock
    threads,                 \* per thread in _get_schema_version_engine: its
                             \* position and the value it returned
    n_created                \* history: engines that create_engine has returned

\* the tables of the statement sets, with their history
core == <<blocks_exists, blocks, feeds, schema_versions, upserted>>

\* the state of the engine cache
engine_state == <<_schema_version_cache, threads, n_created>>

\* what the blocks, feeds and version statements leave alone
ext == <<aggregator_updates, _schema_version_cache, threads, n_created>>

vars == <<blocks_exists, blocks, feeds, schema_versions, upserted, last,
          aggregator_updates, _schema_version_cache, threads, n_created>>

----------------------------------------------------------------------------
(* Bounds *)

MaxBlock == 2      \* block numbers are 0..MaxBlock
NumThreads == 3    \* threads calling _get_schema_version_engine
MaxUpdates == 2    \* most rows the aggregator updates table is let grow to
MaxNonce == 1      \* nonces of a transaction are 0..MaxNonce
MaxKeys == 2       \* longest block_numbers argument
MaxBatch == 2      \* longest batch given to a batch upsert
AddrLen == 1       \* length of an address

Threads == 1..NumThreads

----------------------------------------------------------------------------
(* Python values *)

None == {}
Some(x) == {x}
TheValue(o) == CHOOSE x \in o : TRUE
Opt(S) == {None} \cup {Some(x) : x \in S}

SeqsUpTo(S, n) == UNION {[1..k -> S] : k \in 0..n}
NonEmptySeqsUpTo(S, n) == UNION {[1..k -> S] : k \in 1..n}

\* range(a, b): a, a+1, ..., b-1
Range(a, b) == [i \in 1..(IF b > a THEN b - a ELSE 0) |-> a + i - 1]

\* {key(row): row for row in rows}: a later row replaces an earlier one
RECURSIVE DictOf(_, _)
DictOf(rows, col) ==
    IF rows = <<>> THEN <<>>
    ELSE LET init == DictOf(SubSeq(rows, 1, Len(rows) - 1), col)
             r == rows[Len(rows)]
         IN  [k \in (DOMAIN init) \cup {r[col]} |->
                 IF k = r[col] THEN r ELSE init[k]]

\* d.get(k)
DictGet(d, k) == IF k \in DOMAIN d THEN Some(d[k]) ELSE None

----------------------------------------------------------------------------
(* The SQL helper library (toolsql), as the statements use it *)

\* the rows of a result set, in the order the database returns them
RECURSIVE RowsAsSeq(_)
RowsAsSeq(S) ==
    IF S = {} THEN <<>>
    ELSE LET r == CHOOSE x \in S : TRUE IN <<r>> \o RowsAsSeq(S \ {r})

SameKey(r1, r2, key) == \A c \in key : r1[c] = r2[c]

\* toolsql.insert(row=..., upsert='do_update'):
\* INSERT ... ON CONFLICT (key) DO UPDATE
InsertDoUpdate(table, row, key) ==
    {r \in table : ~SameKey(r, row, key)} \cup {row}

\* toolsql.insert(rows=..., upsert='do_update'), rows taken in order
RECURSIVE InsertRowsDoUpdate(_, _, _)
InsertRowsDoUpdate(table, rows, key) ==
    IF rows = <<>> THEN table
    ELSE InsertRowsDoUpdate(InsertDoUpdate(table, Head(rows), key), Tail(rows), key)

\* toolsql.insert(row=...) with no upsert mode: a plain INSERT, which the
\* database rejects with an integrity error when the key is already present
InsertPlainConflicts(table, row, key) == \E r \in table : SameKey(r, row, key)
InsertPlain(table, row, key) ==
    IF InsertPlainConflicts(table, row, key) THEN table ELSE table \cup {row}

\* toolsql.delete(where_equals=...): every row matching all given columns
DeleteWhereEquals(table, where_equals) ==
    {r \in table : \E c \in DOMAIN where_equals : r[c] # where_equals[c]}

----------------------------------------------------------------------------
(* Block rows *)

BlockNumbers == 0..MaxBlock

block_columns == {"number", "timestamp", "base_fee_per_gas"}
extra_keys == <<"send_root", "l1_block_number", "send_count", "transactions">>
ExtraKeySet == {extra_keys[i] : i \in DOMAIN extra_keys}

BlockValue(k, n, t, f) ==
    CASE k = "number" -> n
      [] k = "timestamp" -> t
      [] k = "base_fee_per_gas" -> f
      [] OTHER -> 0

\* the shapes of an upsert input: its timestamp, its base fee and the keys
\* it carries besides the table's columns
BlockShapes ==
    { <<10, None, {}>>, <<20, Some(7), {"transactions"}>>,
      <<10, Some(7), ExtraKeySet>>, <<20, Some(7), {}>> }

RawBlock(n, shape) ==
    [k \in block_columns \cup shape[3] |-> BlockValue(k, n, shape[1], shape[2])]

\* blocks as the callers hand them to the upserts
RawBlocks == {RawBlock(n, shape) : n \in BlockNumbers, shape \in BlockShapes}

\* blocks as the callers hand them to the batch upsert
BatchBlocks == {RawBlock(n, <<20, Some(7), {"transactions"}>>) : n \in BlockNumbers}

\* variant of _prepare_block_for_db that leaves 'transactions' in the row
_prepare_block_for_db_keeps_transactions(block) ==
    [k \in (DOMAIN block) \ {"send_root", "l1_block_number", "send_count"} |->
        block[k]]

\* _prepare_block_for_db
_prepare_block_for_db(block) ==
    IF \E i \in DOMAIN extra_keys : extra_keys[i] \in DOMAIN block
    THEN [k \in (DOMAIN block) \ {extra_keys[i] : i \in
                    {j \in DOMAIN extra_keys : extra_keys[j] \in DOMAIN block}} |->
             block[k]]
    ELSE block

----------------------------------------------------------------------------
(* Blocks statements *)

\* toolsql.select(..., raise_if_table_dne=False) on the blocks table: None
\* when the table does not exist, else the matching rows
select_where_equals_one(number) ==
    IF ~blocks_exists THEN None
    ELSE LET rows == {r \in blocks : r["number"] = number}
         IN  IF rows = {} THEN None ELSE Some(CHOOSE r \in rows : TRUE)

\* variant of the membership select that ignores the last key
select_where_in_but_last(numbers) ==
    IF ~blocks_exists THEN None
    ELSE Some(RowsAsSeq({r \in blocks :
                  \E i \in 1..(Len(numbers) - 1) : r["number"] = numbers[i]}))

select_where_in(numbers) ==
    IF ~blocks_exists THEN None
    ELSE Some(RowsAsSeq({r \in blocks :
                  \E i \in DOMAIN numbers : r["number"] = numbers[i]}))

\* variant of the interval select with a strict lower bound
select_where_gt_lte(start_block, end_block) ==
    IF ~blocks_exists THEN None
    ELSE Some(RowsAsSeq({r \in blocks :
                  r["number"] > start_block /\ r["number"] <= end_block}))

select_where_gte_lte(start_block, end_block) ==
    IF ~blocks_exists THEN None
    ELSE Some(RowsAsSeq({r \in blocks :
                  r["number"] >= start_block /\ r["number"] <= end_block}))

\* int(block['base_fee_per_gas']) of a numeric column value
int(x) == x

\* block['base_fee_per_gas'] = int(block['base_fee_per_gas']) unless None
CoerceBaseFee(block) ==
    IF block["base_fee_per_gas"] # None
    THEN [block EXCEPT !["base_fee_per_gas"] = Some(int(TheValue(@)))]
    ELSE block

\* variant of the addressing mode that tests the bounds for truth, so that
\* block 0 counts as not given
AddressingMode_truthy(block_numbers, start_block, end_block) ==
    IF block_numbers # None THEN "block_numbers"
    ELSE IF /\ start_block # None /\ start_block # Some(0)
            /\ end_block # None /\ end_block # Some(0) THEN "interval"
    ELSE "error"

\* the addressing mode that async_select_blocks / async_delete_blocks take
AddressingMode(block_numbers, start_block, end_block) ==
    IF block_numbers # None THEN "block_numbers"
    ELSE IF start_block # None /\ end_block # None THEN "interval"
    ELSE "error"

\* async_select_blocks: the outcome, the returned value and the statements issued
async_select_blocks(block_numbers, start_block, end_block) ==
    LET mode == AddressingMode(block_numbers, start_block, end_block)
        found == IF mode = "block_numbers"
                 THEN select_where_in(TheValue(block_numbers))
                 ELSE select_where_gte_lte(TheValue(start_block), TheValue(end_block))
        numbers == IF mode = "block_numbers"
                   THEN TheValue(block_numbers)
                   ELSE Range(TheValue(start_block), TheValue(end_block) + 1)
    IN  IF mode = "error"
        THEN [outcome |-> "Exception", ret |-> None, stmts |-> <<>>]
        ELSE IF found = None
        THEN [outcome |-> "ok", ret |-> None, stmts |-> <<"select">>]
        ELSE LET rows == TheValue(found)
                 coerced == [i \in DOMAIN rows |-> CoerceBaseFee(rows[i])]
                 blocks_by_number == DictOf(coerced, "number")
             IN  [outcome |-> "ok",
                  ret |-> Some([i \in DOMAIN numbers |->
                                   DictGet(blocks_by_number, numbers[i])]),
                  stmts |-> <<"select">>]

\* async_select_block_timestamps
async_select_block_timestamps(block_numbers) ==
    LET block_numbers_int == [i \in DOMAIN block_numbers |-> int(block_numbers[i])]
        results == select_where_in(block_numbers_int)
    IN  IF results = None THEN None
        ELSE LET rows == TheValue(results)
                 block_timestamps == DictOf(rows, "number")
             IN  Some([i \in DOMAIN block_numbers |->
                    IF block_numbers[i] \in DOMAIN block_timestamps
                    THEN Some(block_timestamps[block_numbers[i]]["timestamp"])
                    ELSE None])

\* async_upsert_block
async_upsert_block(block) ==
    LET ready_block == _prepare_block_for_db(block)
    IN  IF blocks_exists
        THEN /\ blocks' = InsertDoUpdate(blocks, ready_block, {"number"})
             /\ upserted' = [upserted EXCEPT ![block["number"]] =
                    Some([k \in (DOMAIN block) \ ExtraKeySet |-> block[k]])]
             /\ last' = [op |-> "async_upsert_block", outcome |-> "ok"]
             /\ UNCHANGED <<blocks_exists, feeds, schema_versions>>
        ELSE /\ last' = [op |-> "async_upsert_block", outcome |-> "OperationalError"]
             /\ UNCHANGED <<blocks_exists, blocks, feeds, schema_versions, upserted>>

\* the history after a batch upsert: the last block given for each number
RECURSIVE UpsertedAfter(_, _)
UpsertedAfter(u, bs) ==
    IF bs = <<>> THEN u
    ELSE UpsertedAfter(
            [u EXCEPT ![Head(bs)["number"]] =
                Some([k \in (DOMAIN Head(bs)) \ ExtraKeySet |-> Head(bs)[k]])],
            Tail(bs))

\* async_upsert_blocks
async_upsert_blocks(bs) ==
    LET ready_blocks == [i \in DOMAIN bs |-> _prepare_block_for_db(bs[i])]
    IN  IF blocks_exists
        THEN /\ blocks' = InsertRowsDoUpdate(blocks, ready_blocks, {"number"})
             /\ upserted' = UpsertedAfter(upserted, bs)
             /\ last' = [op |-> "async_upsert_blocks", outcome |-> "ok"]
             /\ UNCHANGED <<blocks_exists, feeds, schema_versions>>
        ELSE /\ last' = [op |-> "async_upsert_blocks", outcome |-> "OperationalError"]
             /\ UNCHANGED <<blocks_exists, blocks, feeds, schema_versions, upserted>>

\* async_select_block
async_select_block(block_number) ==
    /\ last' = [op |-> "async_select_block", block_number |-> block_number,
                outcome |-> "ok", ret |-> select_where_equals_one(block_number)]
    /\ UNCHANGED <<blocks_exists, blocks, feeds, schema_versions, upserted>>

\* a call of async_select_blocks
SelectBlocks(block_numbers, start_block, end_block) ==
    LET r == async_select_blocks(block_numbers, start_block, end_block)
    IN  /\ last' = [op |-> "async_select_blocks",
                    block_numbers |-> block_numbers,
                    start_block |-> start_block, end_block |-> end_block,
                    outcome |-> r.outcome, ret |-> r.ret, stmts |-> r.stmts]
        /\ UNCHANGED <<blocks_exists, blocks, feeds, schema_versions, upserted>>

\* a call of async_select_block_timestamps
SelectBlockTimestamps(block_numbers) ==
    /\ last' = [op |-> "async_select_block_timestamps",
                block_numbers |-> block_numbers, outcome |-> "ok",
                ret |-> async_select_block_timestamps(block_numbers)]
    /\ UNCHANGED <<blocks_exists, blocks, feeds, schema_versions, upserted>>

\* async_delete_block
async_delete_block(block_number) ==
    IF blocks_exists
    THEN /\ blocks' = DeleteWhereEquals(blocks, [number |-> block_number])
         /\ upserted' = [upserted EXCEPT ![block_number] = None]
         /\ last' = [op |-> "async_delete_block", outcome |-> "ok"]
         /\ UNCHANGED <<blocks_exists, feeds, schema_versions>>
    ELSE /\ last' = [op |-> "async_delete_block", outcome |-> "OperationalError"]
         /\ UNCHANGED <<blocks_exists, blocks, feeds, schema_versions, upserted>>

\* history: whether a batch delete call addresses block number n
Covered(n, block_numbers, start_block, end_block) ==
    IF block_numbers # None
    THEN \E i \in 1..Len(TheValue(block_numbers)) : TheValue(block_numbers)[i] = n
    ELSE TheValue(start_block) <= n /\ n <= TheValue(end_block)

\* the rows async_delete_blocks leaves in the table
DeleteBlocksRows(mode, block_numbers, start_block, end_block) ==
    IF mode = "block_numbers"
    THEN {r \in blocks : ~\E i \in DOMAIN TheValue(block_numbers) :
                              r["number"] = TheValue(block_numbers)[i]}
    ELSE {r \in blocks : ~(r["number"] >= TheValue(start_block)
                           /\ r["number"] <= TheValue(end_block))}

\* async_delete_blocks
async_delete_blocks(block_numbers, start_block, end_block) ==
    LET mode == AddressingMode(block_numbers, start_block, end_block)
        args == [op |-> "async_delete_blocks", block_numbers |-> block_numbers,
                 start_block |-> start_block, end_block |-> end_block]
    IN  IF mode = "error"
        THEN /\ last' = args @@ [outcome |-> "Exception", stmts |-> <<>>]
             /\ UNCHANGED <<blocks_exists, blocks, feeds, schema_versions, upserted>>
        ELSE IF ~blocks_exists
        THEN /\ last' = args @@ [outcome |-> "OperationalError", stmts |-> <<"delete">>]
             /\ UNCHANGED <<blocks_exists, blocks, feeds, schema_versions, upserted>>
        ELSE /\ blocks' = DeleteBlocksRows(mode, block_numbers, start_block, end_block)
             /\ upserted' = [n \in DOMAIN upserted |->
                    IF Covered(n, block_numbers, start_block, end_block)
                    THEN None ELSE upserted[n]]
             /\ last' = args @@ [outcome |-> "ok", stmts |-> <<"delete">>]
             /\ UNCHANGED <<blocks_exists, feeds, schema_versions>>

----------------------------------------------------------------------------
(* Chainlink feeds *)

Chars == {"a", "A", "b"}
Addresses == [1..AddrLen -> Chars]
FeedNames == {"ETH_USD", "BTC_USD"}
FeedAssets == {"ETH"}

\* str.lower()
LowerChar(c) ==
    CASE c = "A" -> "a"
      [] OTHER -> c
lower(str) == [i \in DOMAIN str |-> LowerChar(str[i])]

\* feeds as the callers hand them to the upserts
RawFeeds == [address : Addresses, name : FeedNames, asset : FeedAssets]

\* feeds as the callers hand them to the batch upsert
BatchFeeds ==
    [address : {[i \in 1..AddrLen |-> c] : c \in Chars},
     name : {"BTC_USD"}, asset : FeedAssets]

\* variant of the feed normalisation that stores the address as given
NormalizeFeed_as_given(feed) == feed

\* dict(feed, address=feed['address'].lower())
NormalizeFeed(feed) == [feed EXCEPT !["address"] = lower(feed["address"])]

\* the caller's mapping after the call: dict(feed, ...) and the dict
\* displays build new objects and the argument is only read
CallerMappingAfter(mapping) == mapping

\* async_upsert_feed
async_upsert_feed(feed) ==
    /\ feeds' = InsertDoUpdate(feeds, NormalizeFeed(feed), {"address"})
    /\ last' = [op |-> "async_upsert_feed", outcome |-> "ok",
                address |-> feed["address"],
                existed |-> \E r \in feeds : r["address"] = lower(feed["address"]),
                input_kept |-> (CallerMappingAfter(feed) = feed)]
    /\ UNCHANGED <<blocks_exists, blocks, schema_versions, upserted>>

\* async_upsert_feeds
async_upsert_feeds(fs) ==
    /\ feeds' = InsertRowsDoUpdate(feeds,
                    [i \in DOMAIN fs |-> NormalizeFeed(fs[i])], {"address"})
    /\ last' = [op |-> "async_upsert_feeds", outcome |-> "ok",
                input_kept |->
                    \A i \in DOMAIN fs : CallerMappingAfter(fs[i]) = fs[i]]
    /\ UNCHANGED <<blocks_exists, blocks, schema_versions, upserted>>

\* {key: value for key, value in where_equals.items() if value is not None}
SuppliedFilters(where_equals) ==
    [c \in {k \in DOMAIN where_equals : where_equals[k] # None} |->
        TheValue(where_equals[c])]

\* toolsql.select(where_equals=..., where_in=...): the rows matching every
\* given column, and whose where_in column is among the given values
SelectWhere(table, where_equals, where_in) ==
    {r \in table :
        /\ \A c \in DOMAIN where_equals : r[c] = where_equals[c]
        /\ \A c \in DOMAIN where_in :
               \E i \in DOMAIN where_in[c] : r[c] = where_in[c][i]}

\* async_select_feed: the row found, or None
async_select_feed(address, name, asset) ==
    LET where_equals == SuppliedFilters(
            [address |-> address, name |-> name, asset |-> asset])
        rows == SelectWhere(feeds, where_equals, <<>>)
    IN  IF rows = {} THEN None ELSE Some(CHOOSE r \in rows : TRUE)

\* async_select_feeds: the rows found
async_select_feeds(address, name, asset, addresses) ==
    LET where_equals == SuppliedFilters(
            [address |-> address, name |-> name, asset |-> asset])
        where_in == IF addresses # None
                    THEN [c \in {"address"} |-> TheValue(addresses)]
                    ELSE <<>>
    IN  RowsAsSeq(SelectWhere(feeds, where_equals, where_in))

\* a call of async_select_feed
SelectFeed(address, name, asset) ==
    /\ last' = [op |-> "async_select_feed", address |-> address, name |-> name,
                asset |-> asset, outcome |-> "ok",
                ret |-> async_select_feed(address, name, asset)]
    /\ UNCHANGED <<core, ext>>

\* a call of async_select_feeds
SelectFeeds(address, name, asset, addresses) ==
    /\ last' = [op |-> "async_select_feeds", address |-> address, name |-> name,
                asset |-> asset, addresses |-> addresses, outcome |-> "ok",
                ret |-> async_select_feeds(address, name, asset, addresses)]
    /\ UNCHANGED <<core, ext>>

----------------------------------------------------------------------------
(* Schema version registry *)

SchemaNames == {"blocks", "4byte"}
NetworkRefs == {"mainnet", "goerli"}
Versions == {"0.3.0", "0.3.1"}

\* schema_utils.get_network_schema_names()
get_network_schema_names == {"blocks"}

\* evm.get_network_chain_id(network)
get_network_chain_id(network) == IF network = "mainnet" THEN 1 ELSE 5

\* config.get_context_chain_id(context), a context being its network
get_context_chain_id(context) == get_network_chain_id(context)

\* ctc.__version__
ctc_version == "0.3.1"

\* the key of the schema_versions table
schema_versions_key == {"chain_id", "schema_name"}

\* get_schema_version
get_schema_version(schema_name, context) ==
    LET chain_id == IF schema_name \notin get_network_schema_names
                    THEN -1
                    ELSE get_context_chain_id(context)
        rows == {r \in schema_versions :
                    r["chain_id"] = chain_id /\ r["schema_name"] = schema_name}
    IN  IF rows = {} THEN None ELSE Some((CHOOSE r \in rows : TRUE)["version"])

\* a call of get_schema_version
GetSchemaVersion(schema_name, context) ==
    /\ last' = [op |-> "get_schema_version", schema_name |-> schema_name,
                context |-> context, outcome |-> "ok",
                ret |-> get_schema_version(schema_name, context)]
    /\ UNCHANGED <<blocks_exists, blocks, feeds, schema_versions, upserted>>

\* set_schema_version
set_schema_version(schema_name, network, version) ==
    LET v == IF version = None THEN ctc_version ELSE TheValue(version)
        args == [op |-> "set_schema_version", schema_name |-> schema_name,
                 network |-> network, version |-> v]
        chain_id == IF network = None THEN -1
                    ELSE get_network_chain_id(TheValue(network))
        row == [chain_id |-> chain_id, schema_name |-> schema_name, version |-> v]
    IN  IF network = None /\ schema_name \in get_network_schema_names
        THEN /\ last' = args @@ [outcome |-> "Exception"]
             /\ UNCHANGED <<blocks_exists, blocks, feeds, schema_versions, upserted>>
        ELSE IF InsertPlainConflicts(schema_versions, row, schema_versions_key)
        THEN /\ last' = args @@ [outcome |-> "IntegrityError"]
             /\ UNCHANGED <<blocks_exists, blocks, feeds, schema_versions, upserted>>
        ELSE /\ schema_versions' = InsertPlain(schema_versions, row, schema_versions_key)
             /\ last' = args @@ [outcome |-> "ok"]
             /\ UNCHANGED <<blocks_exists, blocks, feeds, upserted>>

\* variant of the confirmation in which deleting everything never prompts
DeletePrompts_all_unguarded(schema_name, network, confirm_delete_row, confirm_delete_network, confirm_delete_schema, confirm_delete_all) ==
    IF schema_name = None /\ network = None THEN FALSE
    ELSE IF schema_name # None /\ network # None THEN ~confirm_delete_row
    ELSE IF schema_name # None THEN ~confirm_delete_schema
    ELSE ~confirm_delete_network

\* variant of the confirmation in which confirm_delete_row also confirms
\* deleting everything
DeletePrompts_row_confirms_all(schema_name, network, confirm_delete_row, confirm_delete_network, confirm_delete_schema, confirm_delete_all) ==
    IF schema_name = None /\ network = None
    THEN ~(confirm_delete_all \/ confirm_delete_row)
    ELSE IF schema_name # None /\ network # None THEN ~confirm_delete_row
    ELSE IF schema_name # None THEN ~confirm_delete_schema
    ELSE ~confirm_delete_network

\* whether delete_schema_version asks toolcli.input_yes_or_no
DeletePrompts(schema_name, network, confirm_delete_row, confirm_delete_network, confirm_delete_schema, confirm_delete_all) ==
    IF schema_name = None /\ network = None THEN ~confirm_delete_all
    ELSE IF schema_name # None /\ network # None THEN ~confirm_delete_row
    ELSE IF schema_name # None THEN ~confirm_delete_schema
    ELSE IF network # None THEN ~confirm_delete_network
    ELSE FALSE

\* variant of the delete filter that drops the chain_id condition
DeleteFilter_schema_only(schema_name, network) ==
    [c \in (IF schema_name # None THEN {"schema_name"} ELSE {}) |->
        TheValue(schema_name)]

\* the where_equals filter of the delete statement
DeleteFilter(schema_name, network) ==
    LET cols == (IF schema_name # None THEN {"schema_name"} ELSE {})
                 \cup (IF network # None THEN {"chain_id"} ELSE {})
    IN  [c \in cols |-> IF c = "schema_name" THEN TheValue(schema_name)
                        ELSE get_network_chain_id(TheValue(network))]

\* delete_schema_version; answer is what the user replies if prompted
delete_schema_version(schema_name, network, confirm_delete_row, confirm_delete_network, confirm_delete_schema, confirm_delete_all, answer) ==
    LET prompted == DeletePrompts(schema_name, network, confirm_delete_row,
                        confirm_delete_network, confirm_delete_schema,
                        confirm_delete_all)
        args == [op |-> "delete_schema_version", schema_name |-> schema_name,
                 network |-> network,
                 confirm_delete_row |-> confirm_delete_row,
                 confirm_delete_network |-> confirm_delete_network,
                 confirm_delete_schema |-> confirm_delete_schema,
                 confirm_delete_all |-> confirm_delete_all,
                 prompted |-> prompted, answer |-> answer]
    IN  IF prompted /\ ~answer
        THEN /\ last' = args @@ [outcome |-> "Exception", stmts |-> <<>>]
             /\ UNCHANGED <<blocks_exists, blocks, feeds, schema_versions, upserted>>
        ELSE /\ schema_versions' = DeleteWhereEquals(schema_versions,
                                       DeleteFilter(schema_name, network))
             /\ last' = args @@ [outcome |-> "ok", stmts |-> <<"delete">>,
                    ndeleted |-> Cardinality(schema_versions)
                                   - Cardinality(schema_versions')]
             /\ UNCHANGED <<blocks_exists, blocks, feeds, upserted>>

----------------------------------------------------------------------------
(* Chainlink aggregator updates *)

\* addresses as the callers hand them to the aggregator update statements
UpdateAddresses == {[i \in 1..AddrLen |-> c] : c \in Chars}
UpdateBlocks == {0, 1}

\* updates as the callers hand them to the upserts
RawUpdates ==
    [feed : UpdateAddresses, aggregator : UpdateAddresses,
     block_number : UpdateBlocks]

\* updates as the callers hand them to the batch upsert
BatchUpdates ==
    [feed : UpdateAddresses, aggregator : UpdateAddresses, block_number : {1}]

aggregator_updates_key == {"feed", "aggregator", "block_number"}

\* variant of the row construction that stores the aggregator as given
NormalizeUpdate_feed_only(update) ==
    [feed |-> lower(update["feed"]), aggregator |-> update["aggregator"],
     block_number |-> update["block_number"]]

\* {'feed': feed.lower(), 'aggregator': aggregator.lower(),
\*  'block_number': block_number}
NormalizeUpdate(update) ==
    [feed |-> lower(update["feed"]), aggregator |-> lower(update["aggregator"]),
     block_number |-> update["block_number"]]

\* toolsql.insert(rows=...) with no upsert mode, rows taken in order in one
\* statement: nothing is written when a key is already present
RECURSIVE InsertRowsPlain(_, _, _)
InsertRowsPlain(table, rows, key) ==
    IF rows = <<>> THEN Some(table)
    ELSE IF InsertPlainConflicts(table, Head(rows), key) THEN None
    ELSE InsertRowsPlain(table \cup {Head(rows)}, Tail(rows), key)

async_upsert_aggregator_update(feed, aggregator, block_number) ==
    LET given == [feed |-> feed, aggregator |-> aggregator,
                  block_number |-> block_number]
        row == NormalizeUpdate(given)
        conflict == InsertPlainConflicts(aggregator_updates, row,
                                         aggregator_updates_key)
    IN  /\ aggregator_updates' =
               InsertPlain(aggregator_updates, row, aggregator_updates_key)
        /\ last' = [op |-> "async_upsert_aggregator_update",
                    outcome |-> IF conflict THEN "IntegrityError" ELSE "ok",
                    feed |-> feed, aggregator |-> aggregator,
                    block_number |-> block_number,
                    input_kept |-> (CallerMappingAfter(given) = given)]
        /\ UNCHANGED <<core, engine_state>>

async_upsert_aggregator_updates(updates) ==
    LET rows == [i \in DOMAIN updates |-> NormalizeUpdate(updates[i])]
        written == InsertRowsPlain(aggregator_updates, rows,
                                   aggregator_updates_key)
    IN  /\ aggregator_updates' =
               IF written = None THEN aggregator_updates ELSE TheValue(written)
        /\ last' = [op |-> "async_upsert_aggregator_updates",
                    outcome |-> IF written = None THEN "IntegrityError" ELSE "ok",
                    input_kept |->
                        \A i \in DOMAIN updates :
                            CallerMappingAfter(updates[i]) = updates[i]]
        /\ UNCHANGED <<core, engine_state>>

\* async_select_aggregator_updates: the rows found
async_select_aggregator_updates(feed, aggregator, block_number) ==
    LET feed_l == IF feed # None THEN Some(lower(TheValue(feed))) ELSE feed
        aggregator_l == IF aggregator # None
                        THEN Some(lower(TheValue(aggregator))) ELSE aggregator
        where_equals == SuppliedFilters(
            [feed |-> feed_l, aggregator |-> aggregator_l,
             block_number |-> block_number])
    IN  RowsAsSeq(SelectWhere(aggregator_updates, where_equals, <<>>))

\* a call of async_select_aggregator_updates
SelectAggregatorUpdates(feed, aggregator, block_number) ==
    /\ last' = [op |-> "async_select_aggregator_updates", outcome |-> "ok",
                feed |-> feed, aggregator |-> aggregator,
                block_number |-> block_number,
                ret |-> async_select_aggregator_updates(feed, aggregator,
                                                        block_number)]
    /\ UNCHANGED <<core, ext>>

async_delete_aggregator_updates(feed, aggregator, block_number) ==
    LET where_equals == SuppliedFilters(
            [feed |-> feed, aggregator |-> aggregator,
             block_number |-> block_number])
        raises == DOMAIN where_equals = {}
    IN  /\ aggregator_updates' =
               IF raises THEN aggregator_updates
               ELSE DeleteWhereEquals(aggregator_updates, where_equals)
        /\ last' = [op |-> "async_delete_aggregator_updates",
                    outcome |-> IF raises THEN "Exception" ELSE "ok",
                    feed |-> feed, aggregator |-> aggregator,
                    block_number |-> block_number]
        /\ UNCHANGED <<core, engine_state>>

----------------------------------------------------------------------------
(* Unsigned transaction serialization: serialize_unsigned_transaction *)

ChainIds == {1, 5}
TransactionTypes == {0, 1, 2}

\* transactions as the callers hand them over: the type they are of, their
\* 'chain_id' and 'chainId' entries (None for a missing or None entry) and
\* their nonce; every other field holds 0
Transactions ==
    [type : TransactionTypes, chain_id : Opt(ChainIds), chainId : Opt(ChainIds),
     nonce : 0..MaxNonce]

get_transaction_type(transaction) == transaction.type

get_transaction_type_keys(type) ==
    CASE type = 0 -> <<"nonce", "gas_price", "gas", "to", "value", "data">>
      [] type = 1 -> <<"chain_id", "nonce", "gas_price", "gas", "to", "value",
                       "data", "access_list">>
      [] OTHER -> <<"chain_id", "nonce", "max_priority_fee_per_gas",
                    "max_fee_per_gas", "gas", "to", "value", "data",
                    "access_list">>

\* transaction[key]
TransactionField(transaction, key) ==
    IF key = "nonce" THEN transaction.nonce ELSE 0

\* the body of 'if key == chain_id': the values appended, or the raise
ChainIdEntries(transaction, chain_id) ==
    LET first == IF transaction.chain_id # None
                 THEN <<TheValue(transaction.chain_id)>> ELSE <<>>
    IN  IF transaction.chainId # None
        THEN [outcome |-> "ok",
              entries |-> Append(first, TheValue(transaction.chainId))]
        ELSE IF chain_id # None
        THEN [outcome |-> "ok", entries |-> Append(first, TheValue(chain_id))]
        ELSE [outcome |-> "Exception", entries |-> first]

\* for key in keys: ...
RECURSIVE CollectFields(_, _, _, _)
CollectFields(transaction, chain_id, keys, as_list) ==
    IF keys = <<>> THEN [outcome |-> "ok", as_list |-> as_list]
    ELSE IF Head(keys) = "chain_id"
    THEN LET c == ChainIdEntries(transaction, chain_id)
         IN  IF c.outcome # "ok"
             THEN [outcome |-> c.outcome, as_list |-> as_list \o c.entries]
             ELSE CollectFields(transaction, chain_id, Tail(keys),
                                as_list \o c.entries)
    ELSE CollectFields(transaction, chain_id, Tail(keys),
                       Append(as_list, TransactionField(transaction, Head(keys))))

\* if type == 0: the EIP-155 fields appended to a legacy transaction
Eip155Fields(transaction, chain_id) ==
    LET cid == IF chain_id = None /\ transaction.chain_id # None
               THEN Some(int(TheValue(transaction.chain_id))) ELSE chain_id
    IN  IF cid # None THEN <<TheValue(cid), 0, 0>> ELSE <<>>

TypePrefix(type) ==
    CASE type = 0 -> "0x"
      [] type = 1 -> "0x01"
      [] type = 2 -> "0x02"
      [] OTHER -> "unknown"

\* serialize_unsigned_transaction: the prefix and the field list handed to
\* rlp_encode
serialize_unsigned_transaction(transaction, chain_id) ==
    LET type == get_transaction_type(transaction)
        keys == get_transaction_type_keys(type)
        fields == CollectFields(transaction, chain_id, keys, <<>>)
        as_list == IF type = 0
                   THEN fields.as_list \o Eip155Fields(transaction, chain_id)
                   ELSE fields.as_list
        raises == fields.outcome # "ok" \/ TypePrefix(type) = "unknown"
    IN  /\ last' = [op |-> "serialize_unsigned_transaction",
                    transaction |-> transaction, chain_id |-> chain_id,
                    outcome |-> IF raises THEN "Exception" ELSE "ok",
                    prefix |-> IF raises THEN "" ELSE TypePrefix(type),
                    as_list |-> IF raises THEN <<>> ELSE as_list]
        /\ UNCHANGED <<core, ext>>

----------------------------------------------------------------------------
(* Frontier queries: async_select_max_block_number,
   async_select_max_block_timestamp *)

Max(S) == CHOOSE x \in S : \A y \in S : y <= x

\* the name toolsql gives the result field of sql_functions=[[fn, column]],
\* fn__column, kept as the pair it is built from
sql_function_key(fn, column) == <<fn, column>>

\* toolsql.select(table='blocks', sql_functions=[[fn, column]],
\* return_count='one', raise_if_table_dne=False): None for a missing table,
\* else one row whose single field holds the aggregate, NULL over no rows
select_sql_function(fn, column) ==
    IF ~blocks_exists THEN None
    ELSE Some([k \in {sql_function_key(fn, column)} |->
                  IF blocks = {} THEN None
                  ELSE Some(Max({r[column] : r \in blocks}))])

\* result[key] of a Python dict
ReadField(result, key) ==
    IF key \in DOMAIN result
    THEN [outcome |-> "ok", ret |-> result[key]]
    ELSE [outcome |-> "KeyError", ret |-> None]

async_select_max_block_number ==
    LET result == select_sql_function("max", "number")
        r == IF result # None
             THEN ReadField(TheValue(result), <<"max", "block_number">>)
             ELSE [outcome |-> "ok", ret |-> None]
    IN  /\ last' = [op |-> "async_select_max_block_number",
                    outcome |-> r.outcome, ret |-> r.ret]
        /\ UNCHANGED <<core, ext>>

async_select_max_block_timestamp ==
    LET result == select_sql_function("max", "timestamp")
        r == IF result = None
             THEN [outcome |-> "ok", ret |-> None]
             ELSE ReadField(TheValue(result), <<"max", "timestamp">>)
    IN  /\ last' = [op |-> "async_select_max_block_timestamp",
                    outcome |-> r.outcome, ret |-> r.ret]
        /\ UNCHANGED <<core, ext>>

----------------------------------------------------------------------------
(* Connection wrapper: wrap_selector_with_connection(async_select_block, ...) *)

\* what the schema_name argument of the wrapper is: a string, a callable
\* returning a name, a callable returning None, a callable that raises, or
\* a value of another type
SchemaKinds == {"str", "callable", "callable_none", "callable_raises", "other"}
Callables == {"callable", "callable_none", "callable_raises"}

\* what a step of the wrapped call may raise
Errors == {"OperationalError", "ValueError"}

\* what the steps of the call do in one run: the result of schema_name(),
\* of connect_utils.create_engine, of engine.connect and of async_f
StepResults ==
    [create_engine : {"engine", "none"} \cup Errors,
     connect : {"ok"} \cup Errors,
     async_f : {"ok"} \cup Errors]

\* variant of the resolver test that never takes a None name as absent
ResolverAbsent_never(schema_kind) == FALSE

\* name = schema_name(); if name is None
ResolverAbsent(schema_kind) == schema_kind = "callable_none"

\* variant of the handler that catches every exception
Swallowed_any(stage, exc) == stage \in {"connect", "async_f"}

\* variant of the handler that encloses the connection attempt only
Swallowed_connect_only(stage, exc) ==
    stage = "connect" /\ exc = "OperationalError"

\* try: with engine.connect() as conn: return await async_f(...)
\* except sqlalchemy.exc.OperationalError: return None
Swallowed(stage, exc) ==
    stage \in {"connect", "async_f"} /\ exc = "OperationalError"

Returns(value, trace) == [outcome |-> "ok", ret |-> value, trace |-> trace]
Raises(exc, trace) == [outcome |-> exc, ret |-> None, trace |-> trace]

\* the try block of async_connected_f, entered with an engine
ConnectAndExecute(env, block_number, trace) ==
    LET t1 == Append(trace, <<"connect", env.connect>>)
        t2 == Append(t1, <<"async_f", env.async_f>>)
    IN  IF env.connect # "ok"
        THEN IF Swallowed("connect", env.connect)
             THEN Returns(None, t1) ELSE Raises(env.connect, t1)
        ELSE IF env.async_f # "ok"
        THEN IF Swallowed("async_f", env.async_f)
             THEN Returns(None, t2) ELSE Raises(env.async_f, t2)
        ELSE Returns(select_where_equals_one(block_number), t2)

\* async_connected_f: the outcome, the returned value and the steps taken
async_connected_f(schema_kind, engine_supplied, env, block_number) ==
    LET t0 == IF schema_kind \in Callables
              THEN << <<"schema_name", schema_kind>> >> ELSE <<>>
        t1 == IF engine_supplied THEN t0
              ELSE Append(t0, <<"create_engine", env.create_engine>>)
    IN  IF schema_kind = "callable_raises" THEN Raises("ValueError", t0)
        ELSE IF schema_kind \in Callables /\ ResolverAbsent(schema_kind)
        THEN Returns(None, t0)
        ELSE IF schema_kind = "other" THEN Raises("Exception", t0)
        ELSE IF ~engine_supplied /\ env.create_engine \in Errors
        THEN Raises(env.create_engine, t1)
        ELSE IF ~engine_supplied /\ env.create_engine = "none"
        THEN Returns(None, t1)
        ELSE ConnectAndExecute(env, block_number, t1)

\* a call of the wrapped async_select_block
ConnectedSelectBlock(schema_kind, engine_supplied, env, block_number) ==
    LET r == async_connected_f(schema_kind, engine_supplied, env, block_number)
    IN  /\ last' = [op |-> "async_connected_f", schema_kind |-> schema_kind,
                    engine_supplied |-> engine_supplied,
                    block_number |-> block_number,
                    outcome |-> r.outcome, ret |-> r.ret, trace |-> r.trace]
        /\ UNCHANGED <<core, ext>>

----------------------------------------------------------------------------
(* Schema version engine cache: _get_schema_version_engine, one step per
   statement, any number of threads *)

\* variant of the lock test in which the lock never blocks
LockFree_always == TRUE

\* threading.Lock: acquire blocks while another thread holds the lock
LockFree == _schema_version_cache.lock = None

\* the threads inside the with block
InCriticalSection ==
    {t \in Threads : threads[t].pc \in {"check", "create", "return"}}

\* with lock:
EnterLock(t) ==
    /\ threads[t].pc = "start"
    /\ LockFree
    /\ _schema_version_cache' = [_schema_version_cache EXCEPT !.lock = Some(t)]
    /\ threads' = [threads EXCEPT ![t].pc = "check"]
    /\ UNCHANGED <<core, last, aggregator_updates, n_created>>

\* if _schema_version_cache.get('engine') is None:
CheckEngine(t) ==
    /\ threads[t].pc = "check"
    /\ threads' = [threads EXCEPT ![t].pc =
                       IF _schema_version_cache.engine = None
                       THEN "create" ELSE "return"]
    /\ UNCHANGED <<core, last, aggregator_updates, _schema_version_cache,
                   n_created>>

\* _schema_version_cache['engine'] = toolsql.create_engine(...): every call
\* that returns builds a new engine object
CreateEngine(t) ==
    /\ threads[t].pc = "create"
    /\ n_created' = n_created + 1
    /\ _schema_version_cache' =
           [_schema_version_cache EXCEPT !.engine = Some(n_created + 1)]
    /\ threads' = [threads EXCEPT ![t].pc = "return"]
    /\ UNCHANGED <<core, last, aggregator_updates>>

\* toolsql.create_engine raises: the with block releases the lock and the
\* exception leaves the call
CreateEngineRaises(t) ==
    /\ threads[t].pc = "create"
    /\ _schema_version_cache' = [_schema_version_cache EXCEPT !.lock = None]
    /\ threads' = [threads EXCEPT ![t].pc = "start"]
    /\ UNCHANGED <<core, last, aggregator_updates, n_created>>

\* return _schema_version_cache['engine'], leaving the with block
ReturnEngine(t) ==
    /\ threads[t].pc = "return"
    /\ _schema_version_cache' = [_schema_version_cache EXCEPT !.lock = None]
    /\ threads' = [threads EXCEPT ![t] =
                       [pc |-> "done", ret |-> _schema_version_cache.engine]]
    /\ UNCHANGED <<core, last, aggregator_updates, n_created>>

\* the thread calls _get_schema_version_engine again
CallAgain(t) ==
    /\ threads[t].pc = "done"
    /\ threads' = [threads EXCEPT ![t].pc = "start"]
    /\ UNCHANGED <<core, last, aggregator_updates, _schema_version_cache,
                   n_created>>

----------------------------------------------------------------------------
(* Specifications *)

Init ==
    /\ blocks_exists \in BOOLEAN
    /\ blocks = {}
    /\ feeds = {}
    /\ schema_versions = {}
    /\ upserted = [n \in BlockNumbers |-> None]
    /\ last = [op |-> "none", outcome |-> "ok"]
    /\ aggregator_updates = {}
    /\ _schema_version_cache = [engine |-> None, lock |-> None]
    /\ threads = [t \in Threads |-> [pc |-> "start", ret |-> None]]
    /\ n_created = 0

\* the (block_numbers, start_block, end_block) arguments of the batch calls
BatchArgs ==
    {<<None, s, e>> : s, e \in Opt(BlockNumbers)}
    \cup {<<Some(ks), se[1], se[2]>> :
              ks \in SeqsUpTo(BlockNumbers, MaxKeys),
              se \in {<<None, None>>, <<Some(0), Some(1)>>, <<None, Some(0)>>}}

\* the (row, network, schema, all) confirmation flags of a delete call
ConfirmFlags == BOOLEAN \X BOOLEAN \X BOOLEAN \X BOOLEAN

\* no call is in progress
Idle == last.op = "none"

\* the caller takes the result of the call; the next call may start
Return ==
    /\ ~Idle
    /\ last' = [op |-> "none", outcome |-> "ok"]
    /\ UNCHANGED <<core, ext>>

UpsertBlock ==
    /\ Idle
    /\ \E block \in RawBlocks : async_upsert_block(block)
    /\ UNCHANGED ext

UpsertBlocks ==
    /\ Idle
    /\ \E bs \in NonEmptySeqsUpTo(BatchBlocks, MaxBatch) : async_upsert_blocks(bs)
    /\ UNCHANGED ext

SelectBlock ==
    /\ Idle
    /\ \E n \in BlockNumbers : async_select_block(n)
    /\ UNCHANGED ext

SelectBlocksCall ==
    /\ Idle
    /\ \E a \in BatchArgs : SelectBlocks(a[1], a[2], a[3])
    /\ UNCHANGED ext

SelectBlockTimestampsCall ==
    /\ Idle
    /\ \E ks \in SeqsUpTo(BlockNumbers, MaxKeys) : SelectBlockTimestamps(ks)
    /\ UNCHANGED ext

DeleteBlock ==
    /\ Idle
    /\ \E n \in BlockNumbers : async_delete_block(n)
    /\ UNCHANGED ext

DeleteBlocks ==
    /\ Idle
    /\ \E a \in BatchArgs : async_delete_blocks(a[1], a[2], a[3])
    /\ UNCHANGED ext

UpsertFeed ==
    /\ Idle
    /\ \E feed \in RawFeeds : async_upsert_feed(feed)
    /\ UNCHANGED ext

UpsertFeeds ==
    /\ Idle
    /\ \E fs \in NonEmptySeqsUpTo(BatchFeeds, MaxBatch) : async_upsert_feeds(fs)
    /\ UNCHANGED ext

GetVersion ==
    /\ Idle
    /\ \E schema_name \in SchemaNames, context \in NetworkRefs :
                  GetSchemaVersion(schema_name, context)
    /\ UNCHANGED ext

SetVersion ==
    /\ Idle
    /\ \E schema_name \in SchemaNames, network \in Opt(NetworkRefs),
                 version \in Opt(Versions) :
                  set_schema_version(schema_name, network, version)
    /\ UNCHANGED ext

DeleteVersion ==
    /\ Idle
    /\ \E schema_name \in Opt(SchemaNames), network \in Opt(NetworkRefs),
                 flags \in ConfirmFlags, answer \in BOOLEAN :
                  delete_schema_version(schema_name, network, flags[1], flags[2],
                                        flags[3], flags[4], answer)
    /\ UNCHANGED ext

SelectFeedCall ==
    /\ Idle
    /\ \E address \in Addresses, name \in Opt(FeedNames) :
           SelectFeed(Some(address), name, None)

SelectFeedsCall ==
    /\ Idle
    /\ \E address \in Opt(Addresses), name \in Opt(FeedNames),
          addresses \in Opt(SeqsUpTo(Addresses, MaxKeys)) :
           SelectFeeds(address, name, None, addresses)

ConnectedSelectBlockCall ==
    /\ Idle
    /\ \E schema_kind \in SchemaKinds, engine_supplied \in BOOLEAN,
          env \in StepResults, block_number \in BlockNumbers :
           ConnectedSelectBlock(schema_kind, engine_supplied, env, block_number)

EnterLockStep == \E t \in Threads : EnterLock(t)
CheckEngineStep == \E t \in Threads : CheckEngine(t)
CreateEngineStep == \E t \in Threads : CreateEngine(t)
CreateEngineRaisesStep == \E t \in Threads : CreateEngineRaises(t)
ReturnEngineStep == \E t \in Threads : ReturnEngine(t)
CallAgainStep == \E t \in Threads : CallAgain(t)

NextEngine ==
    \/ EnterLockStep
    \/ CheckEngineStep
    \/ CreateEngineStep
    \/ CreateEngineRaisesStep
    \/ ReturnEngineStep
    \/ CallAgainStep

SelectMaxBlockNumber == Idle /\ async_select_max_block_number

SelectMaxBlockTimestamp == Idle /\ async_select_max_block_timestamp

NextFrontier == SelectMaxBlockNumber \/ SelectMaxBlockTimestamp

UpsertAggregatorUpdate ==
    /\ Idle
    /\ Cardinality(aggregator_updates) < MaxUpdates
    /\ \E u \in RawUpdates :
           async_upsert_aggregator_update(u.feed, u.aggregator, u.block_number)

UpsertAggregatorUpdates ==
    /\ Idle
    /\ \E updates \in NonEmptySeqsUpTo(BatchUpdates, MaxBatch) :
           /\ Cardinality(aggregator_updates) + Len(updates) <= MaxUpdates
           /\ async_upsert_aggregator_updates(updates)

SelectAggregatorUpdatesCall ==
    /\ Idle
    /\ \E feed \in Opt(UpdateAddresses), aggregator \in Opt(UpdateAddresses),
          block_number \in Opt(UpdateBlocks) :
           SelectAggregatorUpdates(feed, aggregator, block_number)

DeleteAggregatorUpdates ==
    /\ Idle
    /\ \E feed \in Opt(UpdateAddresses), aggregator \in Opt(UpdateAddresses),
          block_number \in Opt(UpdateBlocks) :
           async_delete_aggregator_updates(feed, aggregator, block_number)

NextUpdateUpserts == UpsertAggregatorUpdate \/ UpsertAggregatorUpdates

NextUpdates ==
    NextUpdateUpserts \/ SelectAggregatorUpdatesCall \/ DeleteAggregatorUpdates

SerializeUnsignedTransaction ==
    /\ Idle
    /\ \E transaction \in Transactions, chain_id \in Opt(ChainIds) :
           serialize_unsigned_transaction(transaction, chain_id)

NextBlockUpserts == UpsertBlock \/ UpsertBlocks

NextBlocks ==
    \/ NextBlockUpserts
    \/ SelectBlock
    \/ SelectBlocksCall
    \/ SelectBlockTimestampsCall
    \/ DeleteBlock
    \/ DeleteBlocks

NextFeeds == UpsertFeed \/ UpsertFeeds

NextVersions == GetVersion \/ SetVersion \/ DeleteVersion

Next ==
    \/ NextBlocks
    \/ NextFrontier
    \/ ConnectedSelectBlockCall
    \/ NextFeeds
    \/ SelectFeedCall
    \/ SelectFeedsCall
    \/ NextUpdates
    \/ NextVersions
    \/ NextEngine
    \/ SerializeUnsignedTransaction
    \/ Return

Spec == Init /\ [][Next]_vars

\* the blocks statements alone
SpecBlocks == Init /\ [][NextBlocks \/ Return]_vars

\* the upserts of blocks and feeds
SpecUpsert == Init /\ [][NextBlockUpserts \/ NextFeeds \/ Return]_vars

\* the chainlink feed upserts and selects
SpecFeeds == Init /\ [][NextFeeds \/ SelectFeedCall \/ SelectFeedsCall \/ Return]_vars

\* the wrapped point select over the blocks table
SpecConnect == Init /\ [][UpsertBlock \/ ConnectedSelectBlockCall \/ Return]_vars

\* the frontier queries over upserted and deleted blocks
SpecFrontier == Init /\ [][UpsertBlock \/ DeleteBlock \/ NextFrontier \/ Return]_vars

\* every chainlink write path
SpecWrites == Init /\ [][NextFeeds \/ NextUpdateUpserts \/ Return]_vars

\* the aggregator update statements alone
SpecUpdates == Init /\ [][NextUpdates \/ Return]_vars

\* the transaction serializer alone
SpecSerialize == Init /\ [][SerializeUnsignedTransaction \/ Return]_vars

\* threads in _get_schema_version_engine
SpecEngine == Init /\ [][NextEngine]_vars

\* the schema version registry alone
SpecVersions == Init /\ [][NextVersions \/ Return]_vars

----------------------------------------------------------------------------
(* Properties *)

\* C1: async_select_block(n) returns the row most recently upserted for n
\* since the last delete covering n, with send_root, l1_block_number,
\* send_count and transactions removed and every other field unchanged; it
\* returns None when n was never upserted or was deleted afterwards.
C1_SelectReturnsLastUpsert ==
    /\ \A n \in BlockNumbers : select_where_equals_one(n) = upserted[n]
    /\ last.op = "async_select_block" => last.ret = upserted[last.block_number]

\* C1 witness: a select has returned a stored block
C1_Witness ==
    /\ last.op = "async_select_block"
    /\ last.ret # None
    /\ \E n \in BlockNumbers : n # last.block_number /\ upserted[n] = None

\* C2: after any sequence of block and feed upserts each table holds at most
\* one row per natural key (block number; lower-cased feed address), an upsert
\* on an existing table raises no error, and feed addresses are stored
\* lower-cased so that two spellings of one address share one row.
C2_UpsertIdempotent ==
    /\ \A r1, r2 \in blocks : r1["number"] = r2["number"] => r1 = r2
    /\ \A f1, f2 \in feeds :
           lower(f1["address"]) = lower(f2["address"]) => f1 = f2
    /\ last.op \in {"async_upsert_feed", "async_upsert_feeds"} => last.outcome = "ok"
    /\ (last.op \in {"async_upsert_block", "async_upsert_blocks"} /\ blocks_exists)
           => last.outcome = "ok"

\* C2 witness: a feed was upserted under a mixed-case address whose
\* lower-cased form was already stored
C2_Witness ==
    /\ last.op = "async_upsert_feed"
    /\ last.existed
    /\ last.address # lower(last.address)
    /\ last.outcome = "ok"
    /\ blocks # {}

\* C3 (as claimed): the schema_versions table holds at most one row per
\* (chain_id, schema_name), and a set_schema_version call for an existing key
\* succeeds and leaves the new version stored.
C3_VersionRowsUpserted ==
    /\ \A r1, r2 \in schema_versions :
           (r1["chain_id"] = r2["chain_id"] /\ r1["schema_name"] = r2["schema_name"])
               => r1 = r2
    /\ (last.op = "set_schema_version"
            /\ ~(last.network = None /\ last.schema_name \in {"blocks"}))
           => /\ last.outcome = "ok"
              /\ \E r \in schema_versions :
                     /\ r["schema_name"] = last.schema_name
                     /\ r["version"] = last.version

\* C4 (as claimed): after set_schema_version(schema_name, network, version=v),
\* get_schema_version(schema_name, context) with a context for that network
\* returns v.
C4_SetThenGet ==
    (last.op = "set_schema_version" /\ last.network # None)
        => get_schema_version(last.schema_name, TheValue(last.network))
               = Some(last.version)

\* the result of an interval select, as a sequence
IntervalResult(s, e) == TheValue(async_select_blocks(None, Some(s), Some(e)).ret)

\* C5: on an existing table async_select_blocks(start_block=s, end_block=e)
\* with s <= e returns e - s + 1 entries, the i-th being the stored block
\* numbered s + i or None, and the result for an interval is the
\* concatenation of the results for two adjacent sub-intervals.
C5_IntervalSelectAligned ==
    /\ (/\ last.op = "async_select_blocks"
        /\ last.block_numbers = None
        /\ last.start_block # None
        /\ last.end_block # None
        /\ blocks_exists)
           => LET s == TheValue(last.start_block)
                  e == TheValue(last.end_block)
              IN  s <= e =>
                      /\ last.outcome = "ok"
                      /\ last.ret # None
                      /\ Len(TheValue(last.ret)) = e - s + 1
                      /\ \A i \in 1..(e - s + 1) :
                             TheValue(last.ret)[i] =
                                 {r \in blocks : r["number"] = s + i - 1}
                      /\ \A m \in s..(e - 1) :
                             TheValue(last.ret) =
                                 IntervalResult(s, m) \o IntervalResult(m + 1, e)

\* C5 witness: an interval select has returned a stored block and a gap
C5_Witness ==
    /\ last.op = "async_select_blocks"
    /\ last.block_numbers = None
    /\ last.outcome = "ok"
    /\ last.ret # None
    /\ \E i, j \in DOMAIN TheValue(last.ret) :
           TheValue(last.ret)[i] = None /\ TheValue(last.ret)[j] # None

\* the value a batch select owes for key k: the stored value or None
StoredBlock(k) == {r \in blocks : r["number"] = k}
StoredTimestamp(k) == {r["timestamp"] : r \in {x \in blocks : x["number"] = k}}

\* the entries of a returned sequence are those owed for the keys, in order
AlignedWith(ret, ks, Owed(_)) ==
    /\ ret # None
    /\ Len(TheValue(ret)) = Len(ks)
    /\ \A i \in 1..Len(ks) : TheValue(ret)[i] = Owed(ks[i])

C7_DeclinedDeleteAllAborts ==
    [][(/\ last'.op = "delete_schema_version"
        /\ last'.schema_name = None
        /\ last'.network = None
        /\ ~last'.confirm_delete_row
        /\ ~last'.confirm_delete_network
        /\ ~last'.confirm_delete_schema
        /\ ~last'.confirm_delete_all
        /\ ~last'.answer)
           => /\ last'.outcome = "Exception"
              /\ last'.stmts = <<>>
              /\ schema_versions' = schema_versions]_vars

\* C7 witness: such a call was declined on a table that holds rows
C7_Witness ==
    /\ last.op = "delete_schema_version"
    /\ last.schema_name = None
    /\ last.network = None
    /\ ~last.confirm_delete_row
    /\ ~last.confirm_delete_network
    /\ ~last.confirm_delete_schema
    /\ ~last.confirm_delete_all
    /\ ~last.answer
    /\ last.outcome = "Exception"
    /\ schema_versions # {}

\* the confirmation flag that belongs to the scope of a delete call
ScopeFlag(call) ==
    IF call.schema_name = None /\ call.network = None THEN call.confirm_delete_all
    ELSE IF call.schema_name # None /\ call.network # None THEN call.confirm_delete_row
    ELSE IF call.schema_name # None THEN call.confirm_delete_schema
    ELSE call.confirm_delete_network

\* C8: the delete statement of delete_schema_version is reached only if the
\* flag of the scope selected by (schema_name, network) is true or the prompt
\* for that scope was answered yes; the prompt is asked exactly when that
\* flag is false, whatever the other flags; a declined prompt raises without
\* deleting.
C8_ScopeFlagGuardsDelete ==
    [][last'.op = "delete_schema_version"
           => /\ last'.prompted <=> ~ScopeFlag(last')
              /\ last'.stmts # <<>> => (ScopeFlag(last') \/ (last'.prompted /\ last'.answer))
              /\ (last'.prompted /\ ~last'.answer)
                     => /\ last'.outcome = "Exception"
                        /\ last'.stmts = <<>>
                        /\ schema_versions' = schema_versions]_vars

\* C8 witness: the delete-everything scope was called with confirm_delete_row
\* alone, was prompted and declined
C8_Witness ==
    /\ last.op = "delete_schema_version"
    /\ last.schema_name = None
    /\ last.network = None
    /\ last.confirm_delete_row
    /\ ~last.confirm_delete_all
    /\ last.prompted
    /\ ~last.answer
    /\ last.outcome = "Exception"
    /\ schema_versions # {}

\* whether a version row matches every filter a delete call supplies
MatchesFilters(r, call) ==
    /\ call.schema_name # None => r["schema_name"] = TheValue(call.schema_name)
    /\ call.network # None =>
           r["chain_id"] = (IF TheValue(call.network) = "mainnet" THEN 1 ELSE 5)

\* C9: a confirmed delete_schema_version removes exactly the rows that match
\* every supplied filter and leaves every other row unchanged.
C9_DeleteRemovesExactlyMatching ==
    [][(last'.op = "delete_schema_version" /\ last'.outcome = "ok")
           => schema_versions' =
                  {r \in schema_versions : ~MatchesFilters(r, last')}]_vars

\* C9 witness: a confirmed single-row delete removed a row and left others
C9_Witness ==
    /\ last.op = "delete_schema_version"
    /\ last.outcome = "ok"
    /\ last.schema_name # None
    /\ last.network # None
    /\ last.ndeleted = 1
    /\ Cardinality(schema_versions) >= 2

\* whether a batch call on blocks lacks both addressing modes
LacksAddressing(call) ==
    /\ call.block_numbers = None
    /\ (call.start_block = None \/ call.end_block = None)

\* C10: async_select_blocks and async_delete_blocks raise before issuing any
\* statement when block_numbers is None and start_block and end_block are not
\* both given, leaving the table unchanged; a given block_numbers alone
\* determines the addressed rows; an interval delete removes exactly the rows
\* with start_block <= number <= end_block.
C10_AddressingRequired ==
    [][/\ (last'.op \in {"async_select_blocks", "async_delete_blocks"}
              /\ LacksAddressing(last'))
           => /\ last'.outcome = "Exception"
              /\ last'.stmts = <<>>
              /\ blocks' = blocks
       /\ (last'.op = "async_delete_blocks" /\ blocks_exists
              /\ last'.block_numbers # None)
           => blocks' = {r \in blocks :
                  \A i \in 1..Len(TheValue(last'.block_numbers)) :
                      TheValue(last'.block_numbers)[i] # r["number"]}
       /\ (last'.op = "async_delete_blocks" /\ blocks_exists
              /\ last'.block_numbers = None /\ ~LacksAddressing(last'))
           => blocks' = {r \in blocks :
                  \/ r["number"] < TheValue(last'.start_block)
                  \/ r["number"] > TheValue(last'.end_block)}
       /\ (last'.op = "async_select_blocks" /\ blocks_exists
              /\ last'.block_numbers # None)
           => /\ last'.ret # None
              /\ Len(TheValue(last'.ret)) = Len(TheValue(last'.block_numbers))]_vars

\* C10 witness: a batch delete given only end_block raised on a table that
\* holds rows
C10_Witness ==
    /\ last.op = "async_delete_blocks"
    /\ last.block_numbers = None
    /\ last.start_block = None
    /\ last.end_block # None
    /\ last.outcome = "Exception"
    /\ last.stmts = <<>>
    /\ blocks # {}

\* the stored feeds whose address is a, compared without regard to case
FeedsAt(a) == {r \in feeds : lower(r["address"]) = lower(a)}

\* C11 (as claimed): async_select_feed(address=a) and
\* async_select_feeds(address=a) or (addresses=[a]) return the feed stored for
\* a, whatever the letter case of a.
C11_FeedLookupCaseInsensitive ==
    /\ (last.op = "async_select_feed" /\ last.name = None)
           => last.ret = FeedsAt(TheValue(last.address))
    /\ (last.op = "async_select_feeds" /\ last.name = None
           /\ last.address # None /\ last.addresses = None)
           => {last.ret[i] : i \in DOMAIN last.ret} = FeedsAt(TheValue(last.address))
    /\ (last.op = "async_select_feeds" /\ last.name = None
           /\ last.address = None /\ last.addresses # None
           /\ Len(TheValue(last.addresses)) = 1)
           => {last.ret[i] : i \in DOMAIN last.ret}
                  = FeedsAt(TheValue(last.addresses)[1])

\* whether a step of the last wrapped call had the given result
Took(stage, result) == \E i \in DOMAIN last.trace : last.trace[i] = <<stage, result>>

\* whether the last wrapped call reached the given step
Reached(stage) == \E i \in DOMAIN last.trace : last.trace[i][1] = stage

\* C12: the wrapped function returns None when opening the connection fails
\* with an OperationalError, and every exception that is not an
\* OperationalError, whichever step raises it, reaches the caller unchanged
\* and is never turned into a None result.
C12_OnlyOperationalErrorSoftFails ==
    last.op = "async_connected_f" =>
        /\ Took("connect", "OperationalError")
               => (last.outcome = "ok" /\ last.ret = None)
        /\ \A stage \in {"schema_name", "create_engine", "connect", "async_f"} :
               \A exc \in Errors \ {"OperationalError"} :
                   Took(stage, exc) => last.outcome = exc
        /\ Took("create_engine", "OperationalError")
               => last.outcome = "OperationalError"
        /\ Took("schema_name", "callable_raises") => last.outcome = "ValueError"
        /\ last.schema_kind = "other" => last.outcome = "Exception"

\* C12 witness: the connection attempt failed with an OperationalError while
\* the block asked for is stored
C12_Witness ==
    /\ last.op = "async_connected_f"
    /\ Took("connect", "OperationalError")
    /\ last.outcome = "ok"
    /\ last.ret = None
    /\ \E r \in blocks : r["number"] = last.block_number

\* C13: when the schema resolver is a callable returning None the wrapped
\* function returns None without creating an engine, connecting or invoking
\* the operation; when no engine was supplied and create_engine returns None
\* it returns None without connecting or invoking the operation.
C13_AbsentSchemaOrEngineSkipsConnection ==
    last.op = "async_connected_f" =>
        /\ last.schema_kind = "callable_none"
               => /\ last.outcome = "ok"
                  /\ last.ret = None
                  /\ ~Reached("create_engine")
                  /\ ~Reached("connect")
                  /\ ~Reached("async_f")
        /\ (~last.engine_supplied /\ Took("create_engine", "none"))
               => /\ last.outcome = "ok"
                  /\ last.ret = None
                  /\ ~Reached("connect")
                  /\ ~Reached("async_f")

\* C13 witness: the resolver returned None, no engine was supplied and the
\* block asked for is stored
C13_Witness ==
    /\ last.op = "async_connected_f"
    /\ last.schema_kind = "callable_none"
    /\ ~last.engine_supplied
    /\ last.ret = None
    /\ \E r \in blocks : r["number"] = last.block_number

\* C18: an OperationalError raised by the wrapped operation itself, after the
\* connection was opened, is swallowed too: the call returns None, the same
\* result as for an unreachable database or a select that found nothing.
C18_OperationErrorSwallowed ==
    (last.op = "async_connected_f" /\ Took("async_f", "OperationalError"))
        => /\ Took("connect", "ok")
           /\ last.outcome = "ok"
           /\ last.ret = None

\* C18 witness: the operation raised an OperationalError on an open
\* connection while the block asked for is stored
C18_Witness ==
    /\ last.op = "async_connected_f"
    /\ Took("connect", "ok")
    /\ Took("async_f", "OperationalError")
    /\ last.ret = None
    /\ \E r \in blocks : r["number"] = last.block_number

\* C14: under any interleaving of threads in _get_schema_version_engine
\* create_engine returns an engine at most once, every thread that has
\* returned holds the one cached engine, and at most one thread at a time is
\* inside the check-and-construct block.
C14_EngineCreatedOnce ==
    /\ n_created <= 1
    /\ \A t \in Threads :
           threads[t].ret # None
               => /\ threads[t].ret = _schema_version_cache.engine
                  /\ threads[t].ret = Some(1)
    /\ Cardinality(InCriticalSection) <= 1
    /\ \A t \in InCriticalSection : _schema_version_cache.lock = Some(t)

\* C14 witness: every thread has returned from its call and another thread
\* than the one that built the engine holds it
C14_Witness ==
    /\ n_created = 1
    /\ \A t \in Threads : threads[t].pc = "done" /\ threads[t].ret = Some(1)

\* the largest stored value of a column, absent for an empty or missing table
StoredMax(column) ==
    IF blocks_exists /\ blocks # {}
    THEN Some(Max({r[column] : r \in blocks})) ELSE None

\* C15: after any sequence of block upserts and deletes
\* async_select_max_block_number returns the largest stored block number and
\* async_select_max_block_timestamp the largest stored timestamp, and both
\* return None without raising when the table is empty or missing.
C15_FrontierIsStoredMax ==
    /\ last.op = "async_select_max_block_number"
           => (last.outcome = "ok" /\ last.ret = StoredMax("number"))
    /\ last.op = "async_select_max_block_timestamp"
           => (last.outcome = "ok" /\ last.ret = StoredMax("timestamp"))

IsLower(str) == lower(str) = str

\* C16: in every state reachable through the four chainlink upserts the
\* address of every feed row and the feed and aggregator of every aggregator
\* update row are lower-case, and no upsert modifies its caller's mapping.
C16_StoredAddressesLowerCase ==
    /\ \A r \in feeds : IsLower(r["address"])
    /\ \A r \in aggregator_updates :
           IsLower(r["feed"]) /\ IsLower(r["aggregator"])
    /\ last.op \in {"async_upsert_feed", "async_upsert_feeds",
                    "async_upsert_aggregator_update",
                    "async_upsert_aggregator_updates"} => last.input_kept

\* C16 witness: an aggregator update handed over with upper-case feed and
\* aggregator was written, next to a stored feed
C16_Witness ==
    /\ last.op = "async_upsert_aggregator_update"
    /\ last.outcome = "ok"
    /\ ~IsLower(last.feed)
    /\ ~IsLower(last.aggregator)
    /\ [feed |-> lower(last.feed), aggregator |-> lower(last.aggregator),
        block_number |-> last.block_number] \in aggregator_updates
    /\ feeds # {}

\* C17: after async_delete_aggregator_updates with the feed, aggregator and
\* block_number of an upsert, in any letter case,
\* async_select_aggregator_updates with the same arguments returns no row;
\* a call with all three filters None raises.
C17_DeleteAddressesWrittenRows ==
    last.op = "async_delete_aggregator_updates" =>
        IF last.feed = None /\ last.aggregator = None /\ last.block_number = None
        THEN last.outcome = "Exception"
        ELSE /\ last.outcome = "ok"
             /\ async_select_aggregator_updates(last.feed, last.aggregator,
                                                last.block_number) = <<>>

\* C19: for a type 1 or type 2 transaction serialize_unsigned_transaction
\* puts exactly one chain id value into the field list for the 'chain_id' key
\* whenever transaction['chain_id'], transaction['chainId'] or the chain_id
\* argument is supplied, and raises only when none of the three is.
C19_OneChainIdPerTypedTransaction ==
    (last.op = "serialize_unsigned_transaction"
     /\ last.transaction.type \in {1, 2}) =>
        IF /\ last.transaction.chain_id = None
           /\ last.transaction.chainId = None
           /\ last.chain_id = None
        THEN last.outcome = "Exception"
        ELSE /\ last.outcome = "ok"
             /\ Len(last.as_list) =
                    Len(get_transaction_type_keys(last.transaction.type))
             /\ last.as_list[1] \in ChainIds
             /\ last.as_list[2] = last.transaction.nonce

====
